---- MODULE Spec2Model ----
(***************************************************************************)
(* The mind-map tree model of mindflow: Node (node.py) and the tree,       *)
(* layout, drag/drop reparent and collapse operations of MindMap           *)
(* (mindmap.py).  Nodes are numbered in creation order, which is the       *)
(* insertion order of the MindMap.nodes dictionary; node 1 is the central  *)
(* node.  None is 0.                                                       *)
(***************************************************************************)
EXTENDS Integers, Sequences, FiniteSets, TLC

\* ----------------------------------------------------------------- bounds
\* The store never holds more than MaxNodes nodes.
MaxNodes == 4
\* No more than MaxDrags drag gestures are started.
MaxDrags == 2
\* Node.delete is called while fewer than MaxDeleted nodes are deleted.
MaxDeleted == 1

\* ------------------------------------------------------ program constants
None == 0
\* The canvas centre, where create_central_node puts the central node.
RootX == 400
RootY == 300
\* _calculate_node_position
BaseOffsetX == 150
MinSiblingSpacing == 60
\* _calculate_subtree_space
MinNodeHeight == 40
SiblingPadding == 20
\* create_child_node
ChildOffsetX == 150
\* _find_closest_potential_parent
DropRadius == 50
\* _reposition_siblings: "only move if the change is significant"
MoveEpsilon == 1

\* Where the pointer goes in a motion event: onto another node, DropDx to the
\* side of the centre of a node outside the dragged subtree, or to the free spot
\* of the canvas.
DropDx == {30}
FreeSpot == <<100, 60>>

VARIABLES
    nodes,          \* MindMap.nodes: the node ids, in insertion order
    parent,         \* Node._parent
    children,       \* Node.children, a list
    x, y,           \* Node.x, Node.y
    is_collapsed,   \* Node.is_collapsed
    deleted,        \* the node's canvas items were deleted (Node.delete)
    connector,      \* the node has the attribute connector (a canvas line id)
    hidden,         \* the node's canvas items are in state "hidden"
    active_node,    \* MindMap.active_node
    dragged_node,   \* MindMap.dragged_node
    dragging,       \* MindMap.dragging
    drag_start_x,   \* MindMap.drag_start_x
    drag_start_y,   \* MindMap.drag_start_y
    last_side,      \* MindMap.last_side
    text,           \* Node.text, a sequence of characters
    editing_node,   \* MindMap.editing_node
    text_editor,    \* MindMap.text_editor: <<>> for None, else <<the entry's content>>
    event_handlers, \* MindMap._event_handlers: event name -> list of handlers
    received,       \* history: the handler calls of the last operation, in order
    drag_origin,    \* history: the tree and positions when the drag began
    drags           \* history: the number of drags started

vars == <<nodes, parent, children, x, y, is_collapsed, deleted, connector, hidden,
          active_node, dragged_node, dragging, drag_start_x, drag_start_y,
          last_side, text, editing_node, text_editor, event_handlers, received,
          drag_origin, drags>>

NodeIds == {nodes[i] : i \in DOMAIN nodes}

\* ---------------------------------------------------------------- helpers
Abs(a) == IF a < 0 THEN -a ELSE a

Max(a, b) == IF a >= b THEN a ELSE b

\* e in s, for a Python list s
Contains(s, e) == \E i \in DOMAIN s : s[i] = e

\* list.remove(e): the first occurrence goes
RemoveFirst(s, e) ==
    IF ~Contains(s, e) THEN s
    ELSE LET i == CHOOSE k \in DOMAIN s :
                      s[k] = e /\ \A j \in 1..(k - 1) : s[j] # e
         IN  SubSeq(s, 1, i - 1) \o SubSeq(s, i + 1, Len(s))

\* How often e occurs in the list s
Count(s, e) == Cardinality({i \in DOMAIN s : s[i] = e})

\* ------------------------------------------------------------------- Node
\* Node.parent setter, on t = [parent |-> ..., children |-> ...]
SetParent(t, n, value) ==
    LET old == t.parent[n]
        c1  == IF old # None /\ Contains(t.children[old], n)
               THEN [t.children EXCEPT ![old] = RemoveFirst(@, n)]
               ELSE t.children
        c2  == IF value # None /\ ~Contains(c1[value], n)
               THEN [c1 EXCEPT ![value] = Append(@, n)]
               ELSE c1
    IN  [parent |-> [t.parent EXCEPT ![n] = value], children |-> c2]

\* Node.__init__: a node n with no children, then "if parent: self.parent = parent"
NewNode(t, n, p) ==
    LET t0 == [parent |-> t.parent @@ (n :> None),
               children |-> t.children @@ (n :> <<>>)]
    IN  IF p # None THEN SetParent(t0, n, p) ELSE t0

\* A toggle_collapse that flips the flag of the node's children with its own
ToggleCollapseCascade(col, ch, n) ==
    IF ch[n] = <<>> THEN col
    ELSE [m \in DOMAIN col |-> IF m = n \/ Contains(ch[n], m) THEN ~col[n] ELSE col[m]]

\* A toggle_collapse that flips the flag of a node without children too
ToggleCollapseAlways(col, ch, n) == [col EXCEPT ![n] = ~@]

\* Node.toggle_collapse, on the is_collapsed flags: nothing without children
ToggleCollapse(col, ch, n) ==
    IF ch[n] = <<>> THEN col ELSE [col EXCEPT ![n] = ~@]

\* Node.delete, on t = [children |-> ..., deleted |-> ..., raised |-> ...]: the
\* children first (over a copy of the list), then the connector, the canvas
\* items, and out of the parent's list.  The connector create_child_node sets
\* is a canvas line id, an int: self.connector.delete() raises AttributeError,
\* which ends this delete and every delete that called it.
RECURSIVE DeleteNode(_, _, _)
RECURSIVE DeleteList(_, _, _, _)
DeleteNode(par, t, n) ==
    LET t1 == DeleteList(par, t, t.children[n], 1)
        t2 == [t1 EXCEPT !.deleted[n] = TRUE]
    IN  IF t1.raised THEN t1
        ELSE IF connector[n] THEN [t1 EXCEPT !.raised = TRUE]
        ELSE IF par[n] # None
        THEN [t2 EXCEPT !.children[par[n]] = RemoveFirst(@, n)]
        ELSE t2

DeleteList(par, t, copy, i) ==
    IF i > Len(copy) \/ t.raised THEN t
    ELSE DeleteList(par, DeleteNode(par, t, copy[i]), copy, i + 1)

\* ----------------------------------------------------------------- layout
\* _calculate_subtree_space
RECURSIVE CalculateSubtreeSpace(_, _)
RECURSIVE SumSubtreeSpace(_, _, _)
CalculateSubtreeSpace(ch, n) ==
    IF ch[n] = <<>> THEN MinNodeHeight + SiblingPadding
    ELSE Max(MinNodeHeight + SiblingPadding, SumSubtreeSpace(ch, ch[n], 1))

SumSubtreeSpace(ch, s, i) ==
    IF i > Len(s) THEN 0
    ELSE CalculateSubtreeSpace(ch, s[i]) + SumSubtreeSpace(ch, s, i + 1)

\* _move_node_and_subtree, on g = [x |-> ..., y |-> ...]: the node, then each
\* entry of its children list in turn
RECURSIVE MoveNodeAndSubtree(_, _, _, _, _)
RECURSIVE MoveList(_, _, _, _, _, _)
MoveNodeAndSubtree(g, ch, n, dx, dy) ==
    LET g1 == [x |-> [g.x EXCEPT ![n] = @ + dx],
               y |-> [g.y EXCEPT ![n] = @ + dy]]
    IN  MoveList(g1, ch, ch[n], 1, dx, dy)

MoveList(g, ch, s, i, dx, dy) ==
    IF i > Len(s) THEN g
    ELSE MoveList(MoveNodeAndSubtree(g, ch, s[i], dx, dy), ch, s, i + 1, dx, dy)

\* sorted(s, key=lambda n: n.y): stable
RECURSIVE InsertByY(_, _, _)
InsertByY(s, e, yy) ==
    IF s = <<>> THEN <<e>>
    ELSE IF yy[e] < yy[Head(s)] THEN <<e>> \o s
    ELSE <<Head(s)>> \o InsertByY(Tail(s), e, yy)

RECURSIVE SortedByY(_, _)
SortedByY(s, yy) ==
    IF s = <<>> THEN <<>>
    ELSE InsertByY(SortedByY(SubSeq(s, 1, Len(s) - 1), yy), s[Len(s)], yy)

\* A loop that gives every child the first slot (current_y never advances)
RECURSIVE PlaceChildrenNoAdvance(_, _, _, _, _)
PlaceChildrenNoAdvance(g, ch, sorted, i, current_y) ==
    IF i > Len(sorted) THEN g
    ELSE LET child        == sorted[i]
             space_needed == CalculateSubtreeSpace(ch, child)
             target_y     == current_y + space_needed \div 2
             dy           == target_y - g.y[child]
             g1           == IF Abs(dy) > MoveEpsilon
                             THEN MoveNodeAndSubtree(g, ch, child, 0, dy)
                             ELSE g
         IN  PlaceChildrenNoAdvance(g1, ch, sorted, i + 1, current_y)

\* the loop of _reposition_siblings over the sorted children
RECURSIVE PlaceChildren(_, _, _, _, _)
PlaceChildren(g, ch, sorted, i, current_y) ==
    IF i > Len(sorted) THEN g
    ELSE LET child        == sorted[i]
             space_needed == CalculateSubtreeSpace(ch, child)
             target_y     == current_y + space_needed \div 2
             dy           == target_y - g.y[child]
             g1           == IF Abs(dy) > MoveEpsilon
                             THEN MoveNodeAndSubtree(g, ch, child, 0, dy)
                             ELSE g
         IN  PlaceChildren(g1, ch, sorted, i + 1, current_y + space_needed)

\* A layout whose slots start from the topmost child instead of the parent
RepositionSiblingsFromFirstChild(g, ch, p) ==
    IF p = None \/ ch[p] = <<>> THEN g
    ELSE LET sorted == SortedByY(ch[p], g.y)
             total  == SumSubtreeSpace(ch, sorted, 1)
         IN  PlaceChildren(g, ch, sorted, 1, g.y[sorted[1]] - total \div 2)

\* _reposition_siblings
RepositionSiblings(g, ch, p) ==
    IF p = None \/ ch[p] = <<>> THEN g
    ELSE LET sorted == SortedByY(ch[p], g.y)
             total  == SumSubtreeSpace(ch, sorted, 1)
         IN  PlaceChildren(g, ch, sorted, 1, g.y[p] - total \div 2)

\* _layout_nodes: for every node of the store that has a parent, in store order
RECURSIVE LayoutNodes(_, _, _, _, _)
LayoutNodes(g, par, ch, store, i) ==
    IF i > Len(store) THEN g
    ELSE LET n == store[i]
             g1 == IF par[n] # None THEN RepositionSiblings(g, ch, par[n]) ELSE g
         IN  LayoutNodes(g1, par, ch, store, i + 1)

\* _calculate_node_position: the new child's position and the new last_side
CalculateNodePosition(p) ==
    LET side == IF parent[p] = None
                THEN IF children[p] = <<>> THEN "right"
                     ELSE IF last_side = "right" THEN "left" ELSE "right"
                ELSE last_side
        off  == IF parent[p] = None
                THEN IF side = "right" THEN BaseOffsetX ELSE -BaseOffsetX
                ELSE IF x[p] < x[parent[p]] THEN -BaseOffsetX ELSE BaseOffsetX
        ch   == children[p]
        ny   == IF ch = <<>> THEN y[p]
                ELSE y[ch[Len(ch)]]
                     + Max(MinSiblingSpacing,
                           CalculateSubtreeSpace(children, p) \div (Len(ch) + 1))
    IN  [x |-> x[p] + off, y |-> ny, last_side |-> side]

\* ------------------------------------------------------------- visibility
\* A visibility test that looks at the direct parent only
IsVisibleParentOnly(par, col, n) == par[n] = None \/ ~col[par[n]]

\* The walk "while current.parent: if current.parent.is_collapsed" of
\* _update_node_visibility and _find_closest_node_in_direction
RECURSIVE IsVisible(_, _, _)
IsVisible(par, col, n) ==
    IF par[n] = None THEN TRUE
    ELSE IF col[par[n]] THEN FALSE
    ELSE IsVisible(par, col, par[n])

\* _update_node_visibility: the canvas state of every node whose items exist
UpdateNodeVisibility(par, col) ==
    [n \in NodeIds |-> IF deleted[n] THEN hidden[n] ELSE ~IsVisible(par, col, n)]

\* --------------------------------------------------------------- reparent
\* A walk that stops at the parent of potential_parent
ReachesDraggedOneLevel(par, current, d) ==
    current # None /\ (current = d \/ par[current] = d)

\* the walk up from potential_parent in _can_be_parent
RECURSIVE ReachesDragged(_, _, _)
ReachesDragged(par, current, d) ==
    IF current = None THEN FALSE
    ELSE IF current = d THEN TRUE
    ELSE ReachesDragged(par, par[current], d)

\* A _can_be_parent without the walk up from potential_parent
CanBeParentNoWalk(par, potential_parent, d) ==
    potential_parent # d /\ potential_parent # par[d]

\* _can_be_parent
CanBeParent(par, potential_parent, d) ==
    IF potential_parent = d THEN FALSE
    ELSE IF potential_parent = par[d] THEN FALSE
    ELSE IF par[potential_parent] = None /\ par[par[d]] = None THEN TRUE
    ELSE ~ReachesDragged(par, potential_parent, d)

\* the square of the distance of _find_closest_potential_parent
Dist2(n, px, py) == (px - x[n]) * (px - x[n]) + (py - y[n]) * (py - y[n])

\* _find_closest_potential_parent: the first node of the store among the
\* nearest ones that can be the parent, if nearer than DropRadius
FindClosestPotentialParent(px, py) ==
    LET ok   == {i \in DOMAIN nodes : CanBeParent(parent, nodes[i], dragged_node)}
        best == {i \in ok : /\ \A j \in ok : Dist2(nodes[i], px, py) <= Dist2(nodes[j], px, py)
                            /\ \A j \in ok : j < i => Dist2(nodes[j], px, py) > Dist2(nodes[i], px, py)}
    IN  IF best = {} THEN None
        ELSE LET i == CHOOSE k \in best : TRUE
             IN  IF Dist2(nodes[i], px, py) < DropRadius * DropRadius
                 THEN nodes[i] ELSE None

\* _flip_node_subtree: flip_node_position mirrors a node about parent_x and
\* then each entry of its children list about the node's new x
RECURSIVE FlipNodePosition(_, _, _, _)
RECURSIVE FlipList(_, _, _, _, _)
FlipNodePosition(g, ch, n, parent_x) ==
    LET nx == parent_x - (g.x[n] - parent_x)
        g1 == [g EXCEPT !.x[n] = nx]
    IN  FlipList(g1, ch, ch[n], 1, n)

FlipList(g, ch, s, i, n) ==
    IF i > Len(s) THEN g
    ELSE FlipList(FlipNodePosition(g, ch, s[i], g.x[n]), ch, s, i + 1, n)

FlipNodeSubtree(g, par, ch, n) ==
    IF par[n] = None THEN g ELSE FlipNodePosition(g, ch, n, g.x[par[n]])

\* A reparent that leaves the removal from the old parent's list to the setter
ReparentNoRemove(t, d, new_parent) ==
    SetParent([parent |-> t.parent,
               children |-> [t.children EXCEPT ![new_parent] = Append(@, d)]],
              d, new_parent)

\* The reparent of _end_drag (lines 575-583): out of the old parent's list,
\* onto the end of the new parent's, then the parent setter
Reparent(t, d, new_parent) ==
    LET old_parent == t.parent[d]
        c1 == IF old_parent # None
              THEN [t.children EXCEPT ![old_parent] = RemoveFirst(@, d)]
              ELSE t.children
        c2 == [c1 EXCEPT ![new_parent] = Append(@, d)]
    IN  SetParent([parent |-> t.parent, children |-> c2], d, new_parent)

\* ------------------------------------------------------------- navigation
\* _find_closest_node_in_direction
BaseVerticalThreshold == 50
BaseHorizontalThreshold == 50
ScaledThresholdCap == 400
ParentChildThreshold == 500
SparseVerticalThreshold == 150
SparseHorizontalThreshold == 300

Directions == {"up", "down", "left", "right"}

\* The largest r in lo..hi with r * r <= v
RECURSIVE ISqrtIn(_, _, _)
ISqrtIn(v, lo, hi) ==
    IF lo >= hi THEN lo
    ELSE LET mid == (lo + hi + 1) \div 2
         IN  IF mid * mid <= v THEN ISqrtIn(v, mid, hi) ELSE ISqrtIn(v, lo, mid - 1)

\* v ** 0.5, rounded down
ISqrt(v) == ISqrtIn(v, 0, 46340)

\* "other.y < node.y" for up, and so on
OnSide(node, other, direction) ==
    CASE direction = "up"    -> y[other] < y[node]
      [] direction = "down"  -> y[other] > y[node]
      [] direction = "left"  -> x[other] < x[node]
      [] direction = "right" -> x[other] > x[node]

\* dx, dy and the square of direct_distance
NavDx(node, other) == Abs(x[other] - x[node])

NavDy(node, other) == Abs(y[other] - y[node])

NavDist2(node, other) ==
    NavDx(node, other) * NavDx(node, other) + NavDy(node, other) * NavDy(node, other)

\* direction_nodes after the sort by direct_distance: the visible nodes of the
\* store other than node that lie on the side, nearest first, ties in store
\* order
DirectionNodes(node, direction) ==
    LET on_side == SelectSeq(nodes, LAMBDA o : /\ o # node
                                              /\ IsVisible(parent, is_collapsed, o)
                                              /\ OnSide(node, o, direction))
    IN  SortedByY(on_side, [o \in NodeIds |-> NavDist2(node, o)])

\* "other.parent == node or node.parent == other"
IsParentChild(node, other) == parent[other] = node \/ parent[node] = other

\* has_parent_child: among the three nearest
HasParentChild(node, sorted) ==
    \E i \in DOMAIN sorted : i <= 3 /\ IsParentChild(node, sorted[i])

\* vertical_threshold
VerticalThreshold(sorted) ==
    IF Len(sorted) <= 2 THEN SparseVerticalThreshold ELSE BaseVerticalThreshold

\* A threshold test whose floor a parent or child does not raise
WithinHorizontalThresholdNoBonus(node, other, sorted) ==
    LET dy    == NavDy(node, other)
        floor == Max(BaseHorizontalThreshold,
                     IF Len(sorted) <= 2 THEN SparseHorizontalThreshold ELSE 0)
    IN  \/ dy < floor
        \/ /\ dy < ScaledThresholdCap
           /\ 4 * dy * dy < 9 * NavDist2(node, sorted[1])

\* "dy < horizontal_threshold" for left and right, where horizontal_threshold
\* is max(floor, min(closest_distance * 1.5, 400)) and floor is 50, raised to
\* 500 by a parent or child among the three nearest and to 300 when there are
\* at most two nodes on the side; dy < closest_distance * 1.5 is compared in
\* squares
WithinHorizontalThreshold(node, other, sorted) ==
    LET dy    == NavDy(node, other)
        floor == Max(Max(BaseHorizontalThreshold,
                         IF HasParentChild(node, sorted) THEN ParentChildThreshold ELSE 0),
                     IF Len(sorted) <= 2 THEN SparseHorizontalThreshold ELSE 0)
    IN  \/ dy < floor
        \/ /\ dy < ScaledThresholdCap
           /\ 4 * dy * dy < 9 * NavDist2(node, sorted[1])

\* The candidates of the second pass, in the order of direction_nodes
NavCandidates(node, direction, sorted) ==
    IF direction \in {"up", "down"}
    THEN SelectSeq(sorted, LAMBDA o : NavDx(node, o) < VerticalThreshold(sorted))
    ELSE SelectSeq(sorted, LAMBDA o : WithinHorizontalThreshold(node, o, sorted))

\* The score of a candidate times 10^7, rounded down term by term (each
\* square root is taken of 100 times the squared distance):
\* up/down:    alignment_score * 0.6 + distance_score * 0.4
\* left/right: (alignment_score * 0.5 + distance_score * 0.5), times 0.7 for
\*             the parent or a child
NavScore(node, other, direction, sorted) ==
    LET dx == NavDx(node, other)
        dy == NavDy(node, other)
        r  == ISqrt(100 * NavDist2(node, other))
    IN  IF direction \in {"up", "down"}
        THEN (6000000 * dx) \div VerticalThreshold(sorted) + 400 * r
        ELSE (IF IsParentChild(node, other) THEN 7 ELSE 10)
               * ((500000 * dy) \div (dx + 1) + 50 * r)

\* _find_closest_node_in_direction(node, direction): the candidate of the
\* lowest score, the first of them in the order of the candidates
FindClosestNodeInDirection(node, direction) ==
    IF node = None THEN None
    ELSE LET sorted == DirectionNodes(node, direction)
             cand   == NavCandidates(node, direction, sorted)
             score  == [i \in DOMAIN cand |-> NavScore(node, cand[i], direction, sorted)]
             best   == {i \in DOMAIN cand : /\ \A j \in DOMAIN cand : score[i] <= score[j]
                                           /\ \A j \in DOMAIN cand : j < i => score[j] > score[i]}
         IN  IF cand = <<>> THEN None
             ELSE cand[CHOOSE i \in best : TRUE]

\* ----------------------------------------------------------------- events
\* The names the program emits: create_child_node, toggle_active_node,
\* _finish_editing
EventNames == {"node_created", "node_toggled", "node_text_changed"}

\* The callables given to bind_event; a call of one is recorded in received
Handlers == {1, 2}

\* bind_event, on the registry h: the handler goes to the end of the name's list
\* (an absent name is the empty list)
BindHandler(h, event_name, handler) ==
    [h EXCEPT ![event_name] = Append(@, handler)]

\* An emit that calls the handlers last bound first
EmitEventReversed(h, event_name, kwargs) ==
    [i \in 1..Len(h[event_name]) |->
        [handler |-> h[event_name][Len(h[event_name]) + 1 - i],
         event_name |-> event_name, kwargs |-> kwargs]]

\* emit_event(event_name, **kwargs): the calls it makes, in order
EmitEvent(h, event_name, kwargs) ==
    [i \in 1..Len(h[event_name]) |->
        [handler |-> h[event_name][i], event_name |-> event_name, kwargs |-> kwargs]]

\* ------------------------------------------------------------------ labels
\* "Central Topic", the text of the central node, and "New Node", the text of
\* a created node
CentralText == <<"C", "e", "n", "t", "r", "a", "l", " ", "T", "o", "p", "i", "c">>
NewNodeText == <<"N", "e", "w", " ", "N", "o", "d", "e">>

\* str.strip(): without the blanks at either end
RECURSIVE StripLeft(_)
StripLeft(s) ==
    IF s = <<>> THEN s
    ELSE IF Head(s) = " " THEN StripLeft(Tail(s)) ELSE s

RECURSIVE StripRight(_)
StripRight(s) ==
    IF s = <<>> THEN s
    ELSE IF s[Len(s)] = " " THEN StripRight(SubSeq(s, 1, Len(s) - 1)) ELSE s

Strip(s) == StripRight(StripLeft(s))

\* ------------------------------------------------------------------- Init
NoOrigin == [x |-> <<>>, y |-> <<>>, parent |-> <<>>, children |-> <<>>]

\* MindMap.__init__ and create_central_node
Init ==
    /\ nodes = <<1>>
    /\ parent = (1 :> None)
    /\ children = (1 :> <<>>)
    /\ x = (1 :> RootX)
    /\ y = (1 :> RootY)
    /\ is_collapsed = (1 :> FALSE)
    /\ deleted = (1 :> FALSE)
    /\ connector = (1 :> FALSE)
    /\ hidden = (1 :> FALSE)
    /\ active_node = 1
    /\ dragged_node = None
    /\ dragging = FALSE
    /\ drag_start_x = 0
    /\ drag_start_y = 0
    /\ last_side = "right"
    /\ text = (1 :> CentralText)
    /\ editing_node = None
    /\ text_editor = <<>>
    /\ event_handlers = [e \in EventNames |-> <<>>]
    /\ received = <<>>
    /\ drag_origin = NoOrigin
    /\ drags = 0

\* ---------------------------------------------------------------- actions
\* Keyboard and API operations are taken between drags: a drag is the press,
\* the motions and the release of one pointer gesture.

\* add_child_node (<Tab>), while the store holds fewer than limit nodes
AddChildNodeWithin(limit) ==
    /\ ~dragging
    /\ active_node # None
    /\ Len(nodes) < limit
    /\ LET p   == active_node
           n   == Len(nodes) + 1
           pos == CalculateNodePosition(p)
           t   == NewNode([parent |-> parent, children |-> children], n, p)
           g   == RepositionSiblings([x |-> x @@ (n :> pos.x), y |-> y @@ (n :> pos.y)],
                                     t.children, p)
       IN  /\ nodes' = Append(nodes, n)
           /\ parent' = t.parent
           /\ children' = t.children
           /\ x' = g.x
           /\ y' = g.y
           /\ last_side' = pos.last_side
           /\ active_node' = n
    /\ is_collapsed' = is_collapsed @@ (Len(nodes) + 1 :> FALSE)
    /\ deleted' = deleted @@ (Len(nodes) + 1 :> FALSE)
    /\ connector' = connector @@ (Len(nodes) + 1 :> FALSE)
    /\ hidden' = hidden @@ (Len(nodes) + 1 :> FALSE)
    /\ text' = text @@ (Len(nodes) + 1 :> NewNodeText)
    /\ received' = <<>>
    /\ UNCHANGED <<dragged_node, dragging, drag_start_x, drag_start_y, event_handlers,
                   editing_node, text_editor,
                   drag_origin, drags>>

AddChildNode == AddChildNodeWithin(MaxNodes)

\* add_sibling_node (<Return>), while the store holds fewer than limit nodes
AddSiblingNodeWithin(limit) ==
    /\ ~dragging
    /\ active_node # None
    /\ parent[active_node] # None
    /\ Len(nodes) < limit
    /\ LET p   == parent[active_node]
           n   == Len(nodes) + 1
           pos == CalculateNodePosition(p)
           t   == NewNode([parent |-> parent, children |-> children], n, p)
           g   == RepositionSiblings([x |-> x @@ (n :> pos.x), y |-> y @@ (n :> pos.y)],
                                     t.children, p)
       IN  /\ nodes' = Append(nodes, n)
           /\ parent' = t.parent
           /\ children' = t.children
           /\ x' = g.x
           /\ y' = g.y
           /\ last_side' = pos.last_side
           /\ active_node' = n
    /\ is_collapsed' = is_collapsed @@ (Len(nodes) + 1 :> FALSE)
    /\ deleted' = deleted @@ (Len(nodes) + 1 :> FALSE)
    /\ connector' = connector @@ (Len(nodes) + 1 :> FALSE)
    /\ hidden' = hidden @@ (Len(nodes) + 1 :> FALSE)
    /\ text' = text @@ (Len(nodes) + 1 :> NewNodeText)
    /\ received' = <<>>
    /\ UNCHANGED <<dragged_node, dragging, drag_start_x, drag_start_y, event_handlers,
                   editing_node, text_editor,
                   drag_origin, drags>>

AddSiblingNode == AddSiblingNodeWithin(MaxNodes)

\* create_child_node(parent_node), up to its return: the store, the tree and
\* the positions it leaves
CreateChild(p) ==
    LET n     == Len(nodes) + 1
        t     == NewNode([parent |-> parent, children |-> children], n, p)
        ch    == [t.children EXCEPT ![p] = Append(@, n)]
        store == Append(nodes, n)
        g     == LayoutNodes([x |-> x @@ (n :> x[p] + ChildOffsetX),
                              y |-> y @@ (n :> y[p])],
                             t.parent, ch, store, 1)
    IN  [nodes |-> store, parent |-> t.parent, children |-> ch, x |-> g.x, y |-> g.y]

\* create_child_node(parent_node)
CreateChildNode(p) ==
    /\ ~dragging
    /\ Len(nodes) < MaxNodes
    /\ LET r == CreateChild(p)
       IN  /\ nodes' = r.nodes
           /\ parent' = r.parent
           /\ children' = r.children
           /\ x' = r.x
           /\ y' = r.y
    /\ is_collapsed' = is_collapsed @@ (Len(nodes) + 1 :> FALSE)
    /\ deleted' = deleted @@ (Len(nodes) + 1 :> FALSE)
    /\ connector' = connector @@ (Len(nodes) + 1 :> TRUE)
    /\ hidden' = hidden @@ (Len(nodes) + 1 :> FALSE)
    /\ text' = text @@ (Len(nodes) + 1 :> NewNodeText)
    /\ received' = EmitEvent(event_handlers, "node_created",
                             [node |-> Len(nodes) + 1, parent |-> p])
    /\ UNCHANGED <<active_node, last_side, dragged_node, dragging,
                   drag_start_x, drag_start_y, event_handlers,
                   editing_node, text_editor, drag_origin, drags>>

\* add_child_node_at(parent) (the definition of line 930, which replaces the one
\* of line 287): create_child_node, then _layout_nodes once more
AddChildNodeAt(p) ==
    /\ ~dragging
    /\ Len(nodes) < MaxNodes
    /\ LET r == CreateChild(p)
           g == LayoutNodes([x |-> r.x, y |-> r.y], r.parent, r.children, r.nodes, 1)
       IN  /\ nodes' = r.nodes
           /\ parent' = r.parent
           /\ children' = r.children
           /\ x' = g.x
           /\ y' = g.y
    /\ is_collapsed' = is_collapsed @@ (Len(nodes) + 1 :> FALSE)
    /\ deleted' = deleted @@ (Len(nodes) + 1 :> FALSE)
    /\ connector' = connector @@ (Len(nodes) + 1 :> TRUE)
    /\ hidden' = hidden @@ (Len(nodes) + 1 :> FALSE)
    /\ text' = text @@ (Len(nodes) + 1 :> NewNodeText)
    /\ received' = EmitEvent(event_handlers, "node_created",
                             [node |-> Len(nodes) + 1, parent |-> p])
    /\ UNCHANGED <<active_node, last_side, dragged_node, dragging,
                   drag_start_x, drag_start_y, event_handlers,
                   editing_node, text_editor, drag_origin, drags>>

\* toggle_active_node (<space>)
ToggleActiveNode ==
    /\ ~dragging
    /\ active_node # None
    /\ is_collapsed' = ToggleCollapse(is_collapsed, children, active_node)
    /\ hidden' = IF children[active_node] = <<>> THEN hidden
                 ELSE UpdateNodeVisibility(parent, is_collapsed')
    /\ received' = IF children[active_node] = <<>> THEN <<>>
                   ELSE EmitEvent(event_handlers, "node_toggled", [node |-> active_node])
    /\ UNCHANGED <<nodes, parent, children, x, y, deleted, connector, active_node,
                   last_side, dragged_node, dragging, drag_start_x, drag_start_y,
                   event_handlers, text, editing_node, text_editor, drag_origin, drags>>

\* Node.delete
Delete(n) ==
    /\ ~dragging
    /\ ~deleted[n]
    /\ Cardinality({m \in NodeIds : deleted[m]}) < MaxDeleted
    /\ LET t == DeleteNode(parent, [children |-> children, deleted |-> deleted,
                                    raised |-> FALSE], n)
       IN  /\ children' = t.children
           /\ deleted' = t.deleted
    /\ received' = <<>>
    /\ UNCHANGED <<nodes, parent, x, y, is_collapsed, connector, hidden, active_node, last_side,
                   dragged_node, dragging, drag_start_x, drag_start_y, event_handlers,
                   text, editing_node, text_editor,
                   drag_origin, drags>>

\* A _start_drag without the test of line 513
StartDragAnyNode(n) ==
    /\ ~dragging
    /\ ~deleted[n]
    /\ ~hidden[n]
    /\ drags < MaxDrags
    /\ drags' = drags + 1
    /\ dragged_node' = n
    /\ drag_start_x' = x[n]
    /\ drag_start_y' = y[n]
    /\ dragging' = TRUE
    /\ active_node' = n
    /\ drag_origin' = [x |-> x, y |-> y, parent |-> parent, children |-> children]
    /\ received' = <<>>
    /\ UNCHANGED <<nodes, parent, children, x, y, is_collapsed, deleted,
                   connector, hidden, last_side, event_handlers,
                   text, editing_node, text_editor>>

\* _start_drag(node, event): a press on the centre of a node whose canvas
\* items exist and are shown; nothing for the root
StartDrag(n) ==
    /\ ~dragging
    /\ ~deleted[n]
    /\ ~hidden[n]
    /\ IF parent[n] = None
       THEN UNCHANGED vars
       ELSE /\ drags < MaxDrags
            /\ drags' = drags + 1
            /\ dragged_node' = n
            /\ drag_start_x' = x[n]
            /\ drag_start_y' = y[n]
            /\ dragging' = TRUE
            /\ active_node' = n
            /\ drag_origin' = [x |-> x, y |-> y, parent |-> parent, children |-> children]
            /\ received' = <<>>
            /\ UNCHANGED <<nodes, parent, children, x, y, is_collapsed, deleted,
                           connector, hidden, last_side, event_handlers,
                           text, editing_node, text_editor>>

\* where a motion event may take the pointer
PointerTargets ==
    {<<x[m] + d, y[m]>> : m \in {k \in NodeIds : ~ReachesDragged(parent, k, dragged_node)},
                          d \in DropDx}
    \cup {FreeSpot}

\* _drag(event): the pointer moves to (px, py)
Drag(px, py) ==
    IF ~dragging \/ dragged_node = None
    THEN UNCHANGED vars
    ELSE LET g == MoveNodeAndSubtree([x |-> x, y |-> y], children, dragged_node,
                                     px - drag_start_x, py - drag_start_y)
         IN  /\ x' = g.x
             /\ y' = g.y
             /\ drag_start_x' = px
             /\ drag_start_y' = py
             /\ received' = <<>>
             /\ UNCHANGED <<nodes, parent, children, is_collapsed, deleted, connector,
                            hidden, active_node, last_side, dragged_node, dragging,
                            event_handlers,
                            text, editing_node, text_editor, drag_origin, drags>>

\* the accepted branch of _end_drag (lines 574-601)
EndDragAccepted(new_parent) ==
    LET d          == dragged_node
        old_parent == parent[d]
        t          == Reparent([parent |-> parent, children |-> children], d, new_parent)
        old_direction == IF x[d] > x[old_parent] THEN "right" ELSE "left"
        new_direction == IF parent[new_parent] = None THEN "right"
                         ELSE IF x[new_parent] > x[parent[new_parent]]
                              THEN "right" ELSE "left"
        g0 == [x |-> x, y |-> y]
        g1 == IF old_direction # new_direction
              THEN FlipNodeSubtree(g0, t.parent, t.children, d)
              ELSE g0
        g2 == RepositionSiblings(g1, t.children, old_parent)
        g3 == RepositionSiblings(g2, t.children, new_parent)
    IN  /\ parent' = t.parent
        /\ children' = t.children
        /\ x' = g3.x
        /\ y' = g3.y

\* the rejected branch of _end_drag (lines 602-604)
EndDragRejected ==
    LET g == RepositionSiblings([x |-> x, y |-> y], children, parent[dragged_node])
    IN  /\ x' = g.x
        /\ y' = g.y
        /\ UNCHANGED <<parent, children>>

\* _end_drag(event): the release, where the pointer is
EndDrag ==
    IF ~dragging \/ dragged_node = None
    THEN UNCHANGED vars
    ELSE LET new_parent == FindClosestPotentialParent(drag_start_x, drag_start_y)
         IN  /\ IF new_parent # None /\ new_parent # parent[dragged_node]
                THEN EndDragAccepted(new_parent)
                ELSE EndDragRejected
             /\ dragging' = FALSE
             /\ dragged_node' = None
             /\ drag_origin' = NoOrigin
             /\ received' = <<>>
             /\ UNCHANGED <<nodes, is_collapsed, deleted, connector, hidden, active_node,
                            last_side, drag_start_x, drag_start_y, event_handlers,
                            text, editing_node, text_editor, drags>>

Next ==
    \/ AddChildNode
    \/ AddSiblingNode
    \/ \E p \in NodeIds : CreateChildNode(p)
    \/ \E p \in NodeIds : AddChildNodeAt(p)
    \/ ToggleActiveNode
    \/ \E n \in NodeIds : Delete(n)
    \/ \E n \in NodeIds : StartDrag(n)
    \/ \E t \in PointerTargets : Drag(t[1], t[2])
    \/ EndDrag

Spec == Init /\ [][Next]_vars

\* ------------------------------------------------- the map with subscribers
\* No more than MaxSubscriptions handlers are bound.
MaxSubscriptions == 2

\* The variables an event operation leaves alone
mapvars == <<text, editing_node, text_editor,
             nodes, parent, children, x, y, is_collapsed, deleted, connector, hidden,
             active_node, dragged_node, dragging, drag_start_x, drag_start_y,
             last_side, drag_origin, drags>>

\* How many handlers the registry h holds
RECURSIVE Subscriptions(_, _)
Subscriptions(h, names) ==
    IF names = {} THEN 0
    ELSE LET e == CHOOSE k \in names : TRUE
         IN  Len(h[e]) + Subscriptions(h, names \ {e})

\* bind_event(event_name, handler)
BindEvent(event_name, handler) ==
    /\ ~dragging
    /\ Subscriptions(event_handlers, EventNames) < MaxSubscriptions
    /\ event_handlers' = BindHandler(event_handlers, event_name, handler)
    /\ received' = <<>>
    /\ UNCHANGED mapvars

\* The payloads of a direct emit_event call
Payloads == {[node |-> 1], [node |-> 1, parent |-> None]}

\* emit_event(event_name, **kwargs), called from outside
EmitEventCall(event_name, kwargs) ==
    /\ ~dragging
    /\ received' = EmitEvent(event_handlers, event_name, kwargs)
    /\ UNCHANGED <<mapvars, event_handlers>>

\* The operations of a map with subscribers: bind, emit, the creations and the
\* collapse toggle
NextEvents ==
    \/ \E e \in EventNames : \E h \in Handlers : BindEvent(e, h)
    \/ \E e \in EventNames : \E k \in Payloads : EmitEventCall(e, k)
    \/ AddChildNode
    \/ AddSiblingNode
    \/ \E p \in NodeIds : CreateChildNode(p)
    \/ \E p \in NodeIds : AddChildNodeAt(p)
    \/ ToggleActiveNode

SpecEvents == Init /\ [][NextEvents]_vars

\* ------------------------------------------- the map under small pointer moves
\* How far from where the node was picked up a motion event takes the pointer
NudgeMoves == {<<0, 1>>, <<0, -1>>, <<0, 2>>, <<0, 70>>}

NudgeTargets ==
    IF dragging
    THEN {<<drag_origin.x[dragged_node] + m[1], drag_origin.y[dragged_node] + m[2]>> :
             m \in NudgeMoves}
    ELSE {<<drag_start_x, drag_start_y>>}

\* The creations and the drag gesture, the pointer moving by a few pixels
NextNudge ==
    \/ AddChildNode
    \/ AddSiblingNode
    \/ \E p \in NodeIds : CreateChildNode(p)
    \/ \E n \in NodeIds : StartDrag(n)
    \/ \E t \in NudgeTargets : Drag(t[1], t[2])
    \/ EndDrag

SpecNudge == Init /\ [][NextNudge]_vars

\* ------------------------------------------------- the map with arrow keys
\* navigate_left, navigate_right, navigate_up, navigate_down: no guard but the
\* active node, so an arrow key is taken at any time, during a drag too
Navigate(direction) ==
    /\ active_node # None
    /\ LET next_node == FindClosestNodeInDirection(active_node, direction)
       IN  active_node' = IF next_node # None THEN next_node ELSE active_node
    /\ received' = <<>>
    /\ UNCHANGED <<nodes, parent, children, x, y, is_collapsed, deleted, connector,
                   hidden, dragged_node, dragging, drag_start_x, drag_start_y,
                   last_side, event_handlers,
                   text, editing_node, text_editor, drag_origin, drags>>

\* Where a motion event takes the pointer: far below, beside the root, and on
\* the row of the root between it and its first child
NavSpots == {<<700, 900>>, <<700, 750>>, <<560, 250>>, <<505, 300>>}

\* With the arrow keys, no more than MaxNavDrags drag gestures are started.
MaxNavDrags == 1

\* The arrow keys, the creations from the keyboard, the collapse toggle,
\* delete and the drag gesture
NextNav ==
    \/ \E d \in Directions : Navigate(d)
    \/ AddChildNode
    \/ AddSiblingNode
    \/ ToggleActiveNode
    \/ \E n \in NodeIds : Delete(n)
    \/ \E n \in NodeIds : drags < MaxNavDrags /\ StartDrag(n)
    \/ \E t \in NavSpots : Drag(t[1], t[2])
    \/ EndDrag

SpecNav == Init /\ [][NextNav]_vars

\* ----------------------------------------------- the map with reorder keys
\* list.index: the first position of e in s
IndexOf(s, e) == CHOOSE i \in DOMAIN s : s[i] = e /\ \A j \in 1..(i - 1) : s[j] # e

\* move_node_up / move_node_down, as a function of the current state: what the
\* children lists and the positions are when the handler returns.  The
\* siblings are a sorted copy of the parent's children; the exchange is made in
\* that copy, which is then dropped; _reposition_siblings runs on the parent.
\* An active node that is not among its parent's children makes index raise
\* ValueError.
MoveNodeResult(step) ==
    LET same == [children |-> children, x |-> x, y |-> y]
    IN  IF active_node = None THEN same
        ELSE IF parent[active_node] = None THEN same
        ELSE LET p        == parent[active_node]
                 siblings == SortedByY(children[p], y)
             IN  IF ~Contains(siblings, active_node) THEN same
                 ELSE LET current_index == IndexOf(siblings, active_node)
                          g == RepositionSiblings([x |-> x, y |-> y], children, p)
                      IN  IF (step = -1 /\ current_index > 1)
                             \/ (step = 1 /\ current_index < Len(siblings))
                          THEN [children |-> children, x |-> g.x, y |-> g.y]
                          ELSE same

\* The key handler: <Control-Up> is step -1, <Control-Down> is step 1
MoveNode(step) ==
    /\ children' = MoveNodeResult(step).children
    /\ x' = MoveNodeResult(step).x
    /\ y' = MoveNodeResult(step).y
    /\ received' = <<>>
    /\ UNCHANGED <<nodes, parent, is_collapsed, deleted, connector, hidden,
                   active_node, dragged_node, dragging, drag_start_x, drag_start_y,
                   last_side, event_handlers,
                   text, editing_node, text_editor, drag_origin, drags>>

\* move_node_up
MoveNodeUp == MoveNode(-1)

\* move_node_down
MoveNodeDown == MoveNode(1)

\* The creations, the arrow keys, the reorder keys and one drag gesture
NextReorder ==
    \/ MoveNodeUp
    \/ MoveNodeDown
    \/ \E d \in Directions : Navigate(d)
    \/ AddChildNode
    \/ AddSiblingNode
    \/ \E n \in NodeIds : drags < MaxNavDrags /\ StartDrag(n)
    \/ \E t \in NudgeTargets : Drag(t[1], t[2])
    \/ EndDrag

SpecReorder == Init /\ [][NextReorder]_vars

\* ------------------------------------------------- the map with the editor
\* A finish that stores whatever the entry holds
FinishEditAnyText ==
    IF text_editor = <<>> \/ editing_node = None
    THEN [text |-> text, editing_node |-> editing_node, text_editor |-> text_editor,
          received |-> <<>>]
    ELSE LET new_text == Strip(text_editor[1])
         IN  [text |-> [text EXCEPT ![editing_node] = new_text],
              editing_node |-> None,
              text_editor |-> <<>>,
              received |-> EmitEvent(event_handlers, "node_text_changed",
                                     [node |-> None, text |-> new_text])]

\* _finish_editing, as a function of the current state: the texts, the editor
\* and the handler calls it leaves.  The event is emitted after editing_node
\* has been set to None.
FinishEdit ==
    IF text_editor = <<>> \/ editing_node = None
    THEN [text |-> text, editing_node |-> editing_node, text_editor |-> text_editor,
          received |-> <<>>]
    ELSE LET new_text == Strip(text_editor[1])
         IN  [text |-> IF new_text # <<>>
                       THEN [text EXCEPT ![editing_node] = new_text]
                       ELSE text,
              editing_node |-> None,
              text_editor |-> <<>>,
              received |-> EmitEvent(event_handlers, "node_text_changed",
                                     [node |-> None, text |-> new_text])]

\* What stays as it is while the label is edited
treevars == <<nodes, parent, children, x, y, is_collapsed, deleted, connector, hidden,
              active_node, dragged_node, dragging, drag_start_x, drag_start_y,
              last_side, event_handlers, drag_origin, drags>>

\* _start_editing(node), on a double click on a node that is shown: an open
\* editor is finished first; the new editor holds the node's text
StartEditing(n) ==
    /\ ~dragging
    /\ ~deleted[n]
    /\ ~hidden[n]
    /\ text' = FinishEdit.text
    /\ editing_node' = n
    /\ text_editor' = <<FinishEdit.text[n]>>
    /\ received' = FinishEdit.received
    /\ UNCHANGED treevars

\* What the user leaves in the entry
Typed == {<<>>, <<" ">>, <<"a">>, <<" ", "a", " ">>, <<" ", " ">>}

\* The user replaces the content of the entry
TypeText(t) ==
    /\ text_editor # <<>>
    /\ text_editor' = <<t>>
    /\ received' = <<>>
    /\ UNCHANGED <<treevars, text, editing_node>>

\* _finish_editing (<Return> or <FocusOut> of the entry)
FinishEditing ==
    /\ text' = FinishEdit.text
    /\ editing_node' = FinishEdit.editing_node
    /\ text_editor' = FinishEdit.text_editor
    /\ received' = FinishEdit.received
    /\ UNCHANGED treevars

\* _cancel_editing (<Escape> of the entry)
CancelEditing ==
    /\ IF text_editor = <<>>
       THEN UNCHANGED <<text_editor, editing_node>>
       ELSE text_editor' = <<>> /\ editing_node' = None
    /\ received' = <<>>
    /\ UNCHANGED <<treevars, text>>

\* The creations (the keys reach the map only while no entry has the focus),
\* the editor, and the handlers of node_text_changed
NextEdit ==
    \/ \E n \in NodeIds : StartEditing(n)
    \/ \E t \in Typed : TypeText(t)
    \/ FinishEditing
    \/ CancelEditing
    \/ text_editor = <<>> /\ AddChildNode
    \/ text_editor = <<>> /\ AddSiblingNode
    \/ \E h \in Handlers : text_editor = <<>> /\ BindEvent("node_text_changed", h)

SpecEdit == Init /\ [][NextEdit]_vars

\* ------------------------------------------------- the map that grows deep
\* With the keys alone the store holds up to MaxGrowNodes nodes.
MaxGrowNodes == 5

\* The creations from the keyboard, the arrow keys, and one drag gesture
NextGrow ==
    \/ AddChildNodeWithin(MaxGrowNodes)
    \/ AddSiblingNodeWithin(MaxGrowNodes)
    \/ \E d \in Directions : Navigate(d)
    \/ \E n \in NodeIds : drags < MaxNavDrags /\ StartDrag(n)
    \/ \E t \in PointerTargets : Drag(t[1], t[2])
    \/ EndDrag

SpecGrow == Init /\ [][NextGrow]_vars

\* ================================================================= claims
\* The k-th parent of n (None once the chain has ended)
RECURSIVE NthParent(_, _, _)
NthParent(par, n, k) ==
    IF k = 0 \/ n = None THEN n ELSE NthParent(par, par[n], k - 1)

\* The nodes reached from n by following .parent one or more times
StrictAncestors(par, n) ==
    {NthParent(par, n, k) : k \in 1..Cardinality(DOMAIN par)} \ {None}

\* No node is reached from itself by following .parent one or more times
Acyclic(par) ==
    \A n \in DOMAIN par :
        \A k \in 1..Cardinality(DOMAIN par) : NthParent(par, n, k) # n

\* The list s without any occurrence of e, the others in their order
Without(s, e) == SelectSeq(s, LAMBDA v : v # e)

\* C1: for all nodes c and p of the store, c.parent == p if and only if c is
\* an element of p.children.
\* Stated for the states in which the central node has not been deleted.
C1_ParentChildrenConsistent ==
    ~deleted[1] =>
        \A c \in NodeIds : \A p \in NodeIds :
            (parent[c] = p) <=> Contains(children[p], c)

\* C2: the tree is acyclic in every reachable state (after any sequence of
\* child creations and drops, accepted or rejected), and every reparent that
\* _can_be_parent accepts keeps it acyclic.
C2_Acyclic ==
    /\ Acyclic(parent)
    /\ \A d \in NodeIds : parent[d] # None =>
         \A c \in NodeIds : CanBeParent(parent, c, d) =>
            Acyclic(Reparent([parent |-> parent, children |-> children], d, c).parent)

\* C2 witness: two drags are over, one ended in a reparent under a node
\* created later than the dragged one, one left a node on the free spot.
C2_Witness ==
    /\ ~dragging
    /\ drags >= 2
    /\ \E n \in NodeIds : parent[n] > n
    /\ \E m \in NodeIds : x[m] = FreeSpot[1]

\* C3: no node occurs more than once in any node's children list.
C3_NoDuplicateChildren ==
    \A p \in NodeIds : \A c \in NodeIds : Count(children[p], c) <= 1

\* C4: exactly one live node has no parent, and it is the root created at
\* construction.
C4_ExactlyOneLiveRoot ==
    {n \in NodeIds : ~deleted[n] /\ parent[n] = None} = {1}

\* C5: a drag that ends without a new parent leaves every parent link, every
\* children list and every position as they were when the drag began.
C5_RejectedDropChangesNothing ==
    [][(dragging /\ ~dragging' /\ parent' = parent)
        => /\ parent' = drag_origin.parent
           /\ children' = drag_origin.children
           /\ x' = drag_origin.x
           /\ y' = drag_origin.y]_vars

\* C6: a successful reparent of D from O to N takes D out of O.children, puts
\* D last in N.children and sets D.parent = N; no other parent link changes,
\* O's and N's other children keep their order, every other children list
\* (D's own too) is unchanged.
C6_ReparentEffects ==
    [][(dragging /\ ~dragging' /\ parent' # parent)
        => LET D == dragged_node
               O == parent[D]
               N == parent'[D]
           IN  /\ N # O
               /\ parent' = [parent EXCEPT ![D] = N]
               /\ children'[O] = Without(children[O], D)
               /\ children'[N] = Append(Without(children[N], D), D)
               /\ \A m \in NodeIds \ {O, N} : children'[m] = children[m]]_vars

\* C6 witness: a drop has put D (which lies DropDx beside its parent, where
\* no creation puts a node) last, behind an earlier child of N, and D has kept
\* a child of its own.
C6_Witness ==
    /\ ~dragging
    /\ \E D \in NodeIds :
         /\ parent[D] # None
         /\ \E d \in DropDx : Abs(x[D] - x[parent[D]]) = d
         /\ Len(children[parent[D]]) >= 2
         /\ children[parent[D]][Len(children[parent[D]])] = D
         /\ children[parent[D]][1] # D
         /\ children[D] # <<>>

\* C7: for a dragged node that is not the root, _can_be_parent is false
\* exactly for the dragged node itself, its current parent and its
\* descendants.
C7_CanBeParentRule ==
    LET ancestors == [n \in NodeIds |-> StrictAncestors(parent, n)]
    IN  \A d \in NodeIds : parent[d] # None =>
            \A c \in NodeIds :
                CanBeParent(parent, c, d)
                  <=> ~(c = d \/ c = parent[d] \/ d \in ancestors[c])

\* C7 witness: a drag is on, of a child of the root that has a child; a
\* sibling of it can be its parent, its child cannot.
C7_Witness ==
    /\ dragging
    /\ parent[dragged_node] = 1
    /\ \E c \in NodeIds : parent[c] = dragged_node
                             /\ ~CanBeParent(parent, c, dragged_node)
    /\ \E c \in NodeIds : c # dragged_node /\ parent[c] = 1
                             /\ CanBeParent(parent, c, dragged_node)

\* C8: a node is not visible if and only if one of its strict ancestors is
\* collapsed.
C8_VisibleIffNoCollapsedAncestor ==
    \A n \in NodeIds :
        IsVisible(parent, is_collapsed, n)
          <=> (\A a \in StrictAncestors(parent, n) : ~is_collapsed[a])

\* C8 witness: a collapsed node is visible, its child and grandchild are not,
\* and the grandchild's parent is not collapsed.
C8_Witness ==
    \E n \in NodeIds : \E c \in NodeIds : \E gc \in NodeIds :
        /\ parent[c] = n /\ parent[gc] = c
        /\ is_collapsed[n] /\ ~is_collapsed[c]
        /\ IsVisible(parent, is_collapsed, n)
        /\ ~IsVisible(parent, is_collapsed, c)
        /\ ~IsVisible(parent, is_collapsed, gc)

\* C9: a collapse toggle changes the collapsed flag of the toggled node and of
\* no other, and no position, parent link or children list; toggling the same
\* node again gives back the flags, and so the visibility, of before.
C9_ToggleChangesOnlyTheFlag ==
    [][(nodes' = nodes /\ is_collapsed' # is_collapsed)
        => /\ x' = x /\ y' = y /\ parent' = parent /\ children' = children
           /\ is_collapsed' = [is_collapsed EXCEPT ![active_node] = ~@]
           /\ LET back == ToggleCollapse(is_collapsed', children', active_node)
              IN  /\ back = is_collapsed
                  /\ \A n \in NodeIds :
                       IsVisible(parent', back, n) = IsVisible(parent, is_collapsed, n)]_vars

\* C9 witness: the root with its three children is collapsed.
C9_Witness ==
    /\ is_collapsed[1]
    /\ Cardinality({n \in NodeIds : parent[n] = 1}) = 3
    /\ \A n \in NodeIds \ {1} : ~IsVisible(parent, is_collapsed, n)

\* C10: every collapsed node has a non-empty children list.  Stated for the
\* nodes that have not themselves been deleted.
C10_CollapsedHasChildren ==
    \A n \in NodeIds : (~deleted[n] /\ is_collapsed[n]) => children[n] # <<>>

\* The calls that one publication of event_name with kwargs makes under the
\* registry h: one per subscription of that name, in subscription order
OnePublication(h, event_name, kwargs, calls) ==
    /\ Len(calls) = Len(h[event_name])
    /\ \A i \in DOMAIN calls :
         /\ calls[i].handler = h[event_name][i]
         /\ calls[i].event_name = event_name
         /\ calls[i].kwargs = kwargs

\* C11: a collapse toggle of a node without children changes no state and
\* publishes nothing; a toggle of a node with children flips that node's flag
\* and publishes node_toggled once, carrying that node.
C11_ToggleEvent ==
    [][ToggleActiveNode
        => IF children[active_node] = <<>>
           THEN UNCHANGED <<mapvars, event_handlers>> /\ received' = <<>>
           ELSE /\ is_collapsed' = [is_collapsed EXCEPT ![active_node] = ~@]
                /\ OnePublication(event_handlers, "node_toggled",
                                  [node |-> active_node], received')]_vars

\* C11 witness: two handlers of node_toggled have just been called, in their
\* order, for the toggle that collapsed node 2.
C11_Witness ==
    /\ event_handlers["node_toggled"] = <<2, 1>>
    /\ Len(received) = 2
    /\ received[1].handler = 2 /\ received[2].handler = 1
    /\ received[1].kwargs = [node |-> 2]
    /\ active_node = 2 /\ is_collapsed[2]

\* C12: from a new map, with nothing but creations and collapse toggles so
\* far, the k-th child created under the root lies right of the root when k is
\* odd and left of it when k is even, whichever operation creates it.
C12_RootSidesAlternate ==
    [][(/\ Len(nodes') = Len(nodes) + 1
        /\ drags = 0
        /\ \A m \in NodeIds : ~deleted[m]
        /\ parent'[Len(nodes')] = 1)
        => LET n == Len(nodes')
               k == Cardinality({m \in NodeIds : parent[m] = 1}) + 1
           IN  IF k % 2 = 1 THEN x'[n] > x'[1] ELSE x'[n] < x'[1]]_vars

\* C13: a child created under a parent P that is not the root lies left of P
\* when P lies left of its own parent, and right of P otherwise, whichever
\* operation creates it.
C13_ChildInheritsSide ==
    [][(/\ Len(nodes') = Len(nodes) + 1
        /\ parent'[Len(nodes')] # 1)
        => LET n == Len(nodes')
               P == parent'[n]
           IN  IF x[P] < x[parent[P]] THEN x'[n] < x'[P] ELSE x'[n] > x'[P]]_vars

\* The nodes that occur in the children list of p
DistinctChildren(p) == {children[p][i] : i \in DOMAIN children[p]}

\* After _reposition_siblings(p) on the current positions, the bands of any two
\* distinct children of p, centred on their new y and as high as their subtree
\* space, overlap by no more than slack / 2
BandsAfterReposition(p, slack) ==
    LET g == RepositionSiblings([x |-> x, y |-> y], children, p)
    IN  \A a \in DistinctChildren(p) : \A b \in DistinctChildren(p) :
            a # b => 2 * Abs(g.y[a] - g.y[b]) + slack
                        >= CalculateSubtreeSpace(children, a)
                           + CalculateSubtreeSpace(children, b)

RECURSIVE SpaceOfSet(_)
SpaceOfSet(S) ==
    IF S = {} THEN 0
    ELSE LET c == CHOOSE k \in S : TRUE
         IN  CalculateSubtreeSpace(children, c) + SpaceOfSet(S \ {c})

\* C15: the subtree space of a node without children is 60; that of a node
\* with children is the larger of 60 and the sum of the subtree spaces of its
\* distinct children.
C15_SubtreeSpace ==
    \A n \in NodeIds :
        CalculateSubtreeSpace(children, n)
          = IF children[n] = <<>> THEN MinNodeHeight + SiblingPadding
            ELSE Max(MinNodeHeight + SiblingPadding, SpaceOfSet(DistinctChildren(n)))

\* The node n and the nodes below it, by the children lists
RECURSIVE SubtreeOf(_, _)
SubtreeOf(ch, n) ==
    {n} \cup UNION {SubtreeOf(ch, ch[n][i]) : i \in DOMAIN ch[n]}

\* The translations tried on every node
MoveDeltas == {<<10, -20>>, <<-7, 0>>}

\* C16: moveSubtree(n, dx, dy) adds (dx, dy), once, to the position of n and
\* of every node below n, and leaves every other position as it was.
C16_MoveSubtreeIsRigid ==
    \A n \in NodeIds : \A d \in MoveDeltas :
        LET g == MoveNodeAndSubtree([x |-> x, y |-> y], children, n, d[1], d[2])
        IN  \A m \in NodeIds :
               IF m \in SubtreeOf(children, n)
               THEN g.x[m] = x[m] + d[1] /\ g.y[m] = y[m] + d[2]
               ELSE g.x[m] = x[m] /\ g.y[m] = y[m]

\* The visible nodes other than node that lie strictly on the side
VisibleOnSide(node, direction) ==
    {o \in NodeIds \ {node} : /\ \A a \in StrictAncestors(parent, o) : ~is_collapsed[a]
                               /\ OnSide(node, o, direction)}

\* C17: findClosest(node, direction) returns none or a live node other than
\* node that is visible and lies strictly on the requested side, and returns
\* none when no visible other node lies on that side.
\* Stated for the states in which the central node has not been deleted.
C17_FindClosestResult ==
    ~deleted[1] =>
        \A node \in NodeIds : \A direction \in Directions :
            LET r == FindClosestNodeInDirection(node, direction)
            IN  /\ r # None => (~deleted[r] /\ r \in VisibleOnSide(node, direction))
                /\ VisibleOnSide(node, direction) = {} => r = None

\* C18 as stated: when the only visible node strictly to the right of a node
\* is its own direct child, findClosest(node, right) returns that child,
\* wherever to the right the child lies.
C18_OnlyChildOnTheRight ==
    \A node \in NodeIds : \A c \in NodeIds :
        (VisibleOnSide(node, "right") = {c} /\ parent[c] = node)
            => FindClosestNodeInDirection(node, "right") = c

\* C18 as amended: in that case findClosest(node, right) returns the child
\* when the child lies less than 500 above or below the node, and none
\* otherwise.
C18_OnlyChildWithinThreshold ==
    \A node \in NodeIds : \A c \in NodeIds :
        (VisibleOnSide(node, "right") = {c} /\ parent[c] = node)
            => FindClosestNodeInDirection(node, "right")
                 = IF NavDy(node, c) < ParentChildThreshold THEN c ELSE None

\* C18 witness: the only visible node to the right of the central node is its
\* child, which a drag has taken 450 below it, and it is the one found.
C18_Witness ==
    \E c \in NodeIds :
        /\ VisibleOnSide(1, "right") = {c}
        /\ parent[c] = 1
        /\ dragging /\ dragged_node = c
        /\ NavDy(1, c) = 450
        /\ FindClosestNodeInDirection(1, "right") = c

\* C19: every creation of a child, by add_child_node, add_sibling_node or
\* create_child_node, publishes node_created exactly once, carrying the new
\* node and its parent, with the new node already in its parent's children.
C19_CreationPublishes ==
    [][Len(nodes') = Len(nodes) + 1
        => LET n == Len(nodes')
           IN  /\ Contains(children'[parent'[n]], n)
               /\ OnePublication(event_handlers, "node_created",
                                 [node |-> n, parent |-> parent'[n]],
                                 received')]_vars

\* C20: emit_event(event_name, kwargs) calls the handlers bound to event_name
\* once per binding, in the order of binding, calls no handler that is bound
\* only to another name, calls nothing when the name has no handler, and
\* changes neither the map nor the registry.
C20_PublishCallsSubscribers ==
    [][\A e \in EventNames : \A k \in Payloads :
        EmitEventCall(e, k)
            => /\ OnePublication(event_handlers, e, k, received')
               /\ \A i \in DOMAIN received' :
                    Contains(event_handlers[e], received'[i].handler)
               /\ (event_handlers[e] = <<>> => received' = <<>>)
               /\ UNCHANGED <<mapvars, event_handlers>>]_vars

\* C20 witness: handler 2 is bound to node_text_changed and handler 1 to
\* node_created; an emit of node_text_changed has just called handler 2 alone.
C20_Witness ==
    /\ event_handlers["node_text_changed"] = <<2>>
    /\ event_handlers["node_created"] = <<1>>
    /\ received = <<[handler |-> 2, event_name |-> "node_text_changed",
                     kwargs |-> [node |-> 1]]>>

\* C21: deleting the root is refused and leaves the tree as it was: every node
\* stays live, with the same parent and the same children list.
C21_DeleteRootRejected ==
    [][(\E n \in NodeIds : parent[n] = None /\ Delete(n))
        => UNCHANGED <<nodes, parent, children, deleted>>]_vars

\* C22: deleting a node other than the root destroys it and every node below
\* it: none of them is left in the store's node list (the pool of navigation)
\* or in any children list; every node outside the subtree keeps its parent
\* and its children, except that the node is gone from its parent's children.
C22_DeleteRemovesSubtree ==
    [][\A n \in NodeIds :
        (parent[n] # None /\ Delete(n))
            => LET S == SubtreeOf(children, n)
               IN  /\ \A m \in S :
                        /\ deleted'[m]
                        /\ ~Contains(nodes', m)
                        /\ \A p \in NodeIds : ~Contains(children'[p], m)
                   /\ \A m \in NodeIds \ S :
                        /\ parent'[m] = parent[m]
                        /\ children'[m] = IF m = parent[n]
                                          THEN Without(children[m], n)
                                          ELSE children[m]]_vars

\* s with the entries at positions i and j exchanged
Swap(s, i, j) == [s EXCEPT ![i] = s[j], ![j] = s[i]]

\* C23: a reorder up of a node that is not first among its parent's children
\* exchanges it with the child just before it, a reorder down of a node that is
\* not last exchanges it with the child just after it, in the children list
\* and in the vertical order; at the boundary and for the root nothing changes.
C23_ReorderSwapsNeighbours ==
    \A step \in {-1, 1} :
        (~dragging /\ active_node # None /\ ~deleted[active_node])
            => LET n     == active_node
                   p     == parent[n]
                   after == MoveNodeResult(step)
                   same  == [children |-> children, x |-> x, y |-> y]
               IN  IF p = None THEN after = same
                   ELSE LET i == IndexOf(children[p], n)
                        IN  IF i + step \in DOMAIN children[p]
                            THEN LET m == children[p][i + step]
                                 IN  /\ after.children[p] = Swap(children[p], i, i + step)
                                     /\ (after.y[n] - after.y[m]) * step > 0
                            ELSE after = same

\* C24: when the editor is finished with a content that strips to nothing, by
\* <Return>, by <FocusOut> or by the start of another edit, every node keeps
\* its label, and nothing else of any node changes.
C24_EmptyLabelRejected ==
    [][(/\ text_editor # <<>>
        /\ editing_node # None
        /\ Strip(text_editor[1]) = <<>>
        /\ (FinishEditing \/ \E n \in NodeIds : StartEditing(n)))
        => /\ text' = text
           /\ UNCHANGED <<nodes, parent, children, x, y, is_collapsed, deleted,
                          hidden, active_node>>]_vars

\* C24 witness: a handler has just been told of an edit that ended with a blank
\* entry; the editor is closed and every node has a label that is not blank.
C24_Witness ==
    /\ text_editor = <<>>
    /\ editing_node = None
    /\ \E i \in DOMAIN received :
         /\ received[i].event_name = "node_text_changed"
         /\ received[i].kwargs.text = <<>>
    /\ \A n \in NodeIds : Strip(text[n]) # <<>>

\* C25: a creation under a parent that has been deleted is refused: no node is
\* added to the store or to any children list.
\* Stated for the states in which the central node has not been deleted.
C25_DeletedParentRefused ==
    [][\A p \in NodeIds :
        (~deleted[1] /\ deleted[p] /\ (CreateChildNode(p) \/ AddChildNodeAt(p)))
            => /\ nodes' = nodes
               /\ children' = children]_vars

\* The node a release of the pointer would make the new parent, if it would
\* also flip the dragged subtree; None otherwise
FlippingParent ==
    IF ~dragging \/ dragged_node = None THEN None
    ELSE LET np == FindClosestPotentialParent(drag_start_x, drag_start_y)
         IN  IF np = None THEN None
             ELSE IF np = parent[dragged_node] THEN None
             ELSE LET old_right == x[dragged_node] > x[parent[dragged_node]]
                      new_right == IF parent[np] = None THEN TRUE
                                   ELSE x[np] > x[parent[np]]
                  IN  IF old_right # new_right THEN np ELSE None

\* The positions the flip of that release computes, before the re-layout
FlippedPositions ==
    LET np == FlippingParent
        t  == Reparent([parent |-> parent, children |-> children], dragged_node, np)
    IN  FlipNodeSubtree([x |-> x, y |-> y], t.parent, t.children, dragged_node)

\* C26: when a reparent flips the dragged subtree, the dragged node and every
\* node below it gets x' = newParent.x - (x - newParent.x) and keeps its y.
C26_FlipMirrorsSubtree ==
    FlippingParent # None
        => \A m \in SubtreeOf(children, dragged_node) :
             /\ FlippedPositions.x[m] = x[FlippingParent] - (x[m] - x[FlippingParent])
             /\ FlippedPositions.y[m] = y[m]

\* C27: after a drop that makes a node N other than the root the parent of D,
\* D lies on the side of N on which N lies of its own parent, and every node
\* below D lies on that side of its parent.
C27_BranchOnParentsSide ==
    [][(/\ dragging /\ ~dragging'
        /\ parent'[dragged_node] # parent[dragged_node]
        /\ parent[parent'[dragged_node]] # None)
        => LET d     == dragged_node
               n     == parent'[d]
               right == x[n] > x[parent[n]]
           IN  \A m \in SubtreeOf(children', d) :
                  IF right THEN x'[m] > x'[parent'[m]]
                           ELSE x'[m] < x'[parent'[m]]]_vars

NoOverlapAnywhere(ch, yy) ==
    \A p \in DOMAIN ch :
        \A i \in DOMAIN ch[p] : \A j \in DOMAIN ch[p] :
            ch[p][i] # ch[p][j]
                => 2 * Abs(yy[ch[p][i]] - yy[ch[p][j]]) + 4 * MoveEpsilon
                     >= CalculateSubtreeSpace(ch, ch[p][i])
                        + CalculateSubtreeSpace(ch, ch[p][j])

\* C29: when a creation or a reparent has completed, the bands of any two
\* distinct children of any node, at every level of the tree, do not overlap,
\* up to the tolerance of 1 for each child.
C29_NoOverlapAtEveryLevel ==
    [][(\/ Len(nodes') = Len(nodes) + 1
        \/ (dragging /\ ~dragging' /\ parent' # parent))
        => NoOverlapAnywhere(children', y')]_vars

\* C30: findClosest returns a candidate of the lowest score, and among the
\* candidates of the lowest score the one that comes first in the store,
\* whatever their distances.
\* Stated for the states in which no node has been deleted.
C30_MinScoreFirstInPool ==
    \A node \in NodeIds : \A direction \in Directions :
        LET sorted == DirectionNodes(node, direction)
            cand   == NavCandidates(node, direction, sorted)
            found  == FindClosestNodeInDirection(node, direction)
        IN  (cand # <<>> /\ \A n \in NodeIds : ~deleted[n])
              => /\ Contains(cand, found)
                 /\ \A i \in DOMAIN cand :
                      /\ NavScore(node, found, direction, sorted)
                           <= NavScore(node, cand[i], direction, sorted)
                      /\ NavScore(node, cand[i], direction, sorted)
                           = NavScore(node, found, direction, sorted)
                         => IndexOf(nodes, found) <= IndexOf(nodes, cand[i])

\* C31: every node_text_changed call carries the node whose label was edited
\* and a text equal to the label that node has when the event is published.
C31_LabelChangedPayload ==
    [][\A i \in DOMAIN received' :
        received'[i].event_name = "node_text_changed"
            => /\ received'[i].kwargs.node = editing_node
               /\ received'[i].kwargs.text = text'[editing_node]]_vars

\* C32: in every reachable state the canvas items of a node that has not been
\* deleted are hidden exactly when one of its strict ancestors is collapsed.
C32_HiddenMatchesVisibility ==
    \A n \in NodeIds :
        ~deleted[n]
            => (hidden[n] <=> \E a \in StrictAncestors(parent, n) : is_collapsed[a])

\* C33: in every reachable state the active node is a node of the store that
\* has not been deleted and has no collapsed strict ancestor.
\* Stated for the states in which no node has been deleted.
C33_ActiveNodeLiveAndVisible ==
    (\A n \in NodeIds : ~deleted[n])
        => /\ active_node \in NodeIds
           /\ \A a \in StrictAncestors(parent, active_node) : ~is_collapsed[a]

\* the drag state of the map
dragvars == <<dragged_node, dragging, drag_start_x, drag_start_y>>

====
